---- MODULE Spec2Model ----
(***************************************************************************)
(* A model of go-fsst: the symbol table with its first-byte index, the     *)
(* dictionary codec (Finnalize / newSymbolTableFromDict), the encoder      *)
(* (Compress), the decoder (NewDecompressor / Decompress) and the trainer  *)
(* (Build: compressCount, makeTable).                                      *)
(*                                                                         *)
(* Bytes are the integers 0..255.  A Go slice or array is a sequence; the  *)
(* element with Go index i is element i+1 of the sequence.  A symbol is a  *)
(* sequence of bytes.  The zero-initialised counter arrays of the trainer  *)
(* are kept sparse: an absent key is the Go zero value.                    *)
(***************************************************************************)
EXTENDS Integers, Sequences, FiniteSets, TLC

VARIABLES
    pc,          \* position of the caller: which operation runs next
    origin,      \* where the dictionary comes from: "build", "table" or "blob"
    text,        \* Build's argument, the sample list
    sampleFrac,  \* Build's loop variable
    table,       \* Builder.table
    count1,      \* Builder.count1
    count2,      \* Builder.count2
    dict,        \* the serialised dictionary
    comp,        \* the Compressor NewCompressor returned, and its error
    decomp,      \* the Decompressor NewDecompressor returned, and its error
    input,       \* the argument of Compress
    compressed,  \* the result of Compress, or the argument of Decompress
    result       \* what Decompress returned

vars == <<pc, origin, text, sampleFrac, table, count1, count2, dict,
          comp, decomp, input, compressed, result>>

(***************************************************************************)
(* Program constants                                                       *)
(***************************************************************************)
escapeMarker == 255

MaxSymbolLength == 8

NumSymbols == 256

MaxSize == NumSymbols * MaxSymbolLength

TableCap == 255

CountSlots == 512

\* evaluated(x) is TRUE.  TLC evaluates the argument of an operator only when
\* it is used; a loop written as a recursion asks for its accumulator in its
\* guard, which has it evaluated when the iteration starts.
evaluated(x) == x = x

\* after(x, v) is v, computed once x has been evaluated: a step that hands
\* its result to the next step has it evaluated first.
after(x, v) == IF evaluated(x) THEN v ELSE v

(***************************************************************************)
(* Symbol table (fsst.go)                                                  *)
(***************************************************************************)
\* st.Symbols[code]
Sym(st, code) == st.Symbols[code + 1]

newSymbolTable ==
    [Nsymbols |-> 0,
     Index    |-> [i \in 0..256 |-> 0],
     Symbols  |-> [i \in 1..256 |-> <<i - 1>>]]

insert(st, s) ==
    [st EXCEPT !.Symbols = Append(@, s), !.Nsymbols = @ + 1]

\* bytes.Compare: -1, 0 or +1, lexicographic
RECURSIVE bytesCompare(_, _)
bytesCompare(a, b) ==
    IF a = <<>> /\ b = <<>> THEN 0
    ELSE IF a = <<>> THEN -1
    ELSE IF b = <<>> THEN 1
    ELSE IF a[1] < b[1] THEN -1
    ELSE IF a[1] > b[1] THEN 1
    ELSE bytesCompare(Tail(a), Tail(b))

\* less with the length order reversed: shorter symbols first in a bucket
lessShortestFirst(s1, s2) ==
    IF s1[1] = s2[1] THEN Len(s1) < Len(s2)
    ELSE bytesCompare(s1, s2) < 0

\* the comparator handed to sort.Slice in makeIndex
less(s1, s2) ==
    IF s1[1] = s2[1] THEN Len(s1) > Len(s2)
    ELSE bytesCompare(s1, s2) < 0

\* data.Swap(i, j) on a slice, Go indices
swap(s, i, j) == [s EXCEPT ![i + 1] = s[j + 1], ![j + 1] = s[i + 1]]

\* data.Less(i, j) of the slice handed to sort.Slice, Go indices
lessAt(d, i, j) == less(d[i + 1], d[j + 1])

(***************************************************************************)
(* sort.Slice (package sort of Go 1.19 and later, a pattern-defeating      *)
(* quicksort): the slice is sorted in place by                             *)
(* pdqsort_func(data, 0, n, bits.Len(n)).  The sort is not stable; the     *)
(* order it leaves elements in that less does not order is the one these   *)
(* steps produce.                                                          *)
(***************************************************************************)
\* the smallest member of S, or none when S is empty
firstOf(S, none) == IF S = {} THEN none ELSE CHOOSE x \in S : \A y \in S : x <= y

\* the largest member of S, or none when S is empty
lastOf(S, none) == IF S = {} THEN none ELSE CHOOSE x \in S : \A y \in S : x >= y

\* bits.Len(n) for 0 <= n < 2^12
bitsLen(n) == CHOOSE k \in 0..12 : n < 2 ^ k /\ (k = 0 \/ n >= 2 ^ (k - 1))

\*   for i := a + 1; i < b; i++ { for j := i; j > a && less(j, j-1); j-- { swap(j, j-1) } }
RECURSIVE insertionInner(_, _, _)
insertionInner(d, a, j) ==
    IF j > a /\ lessAt(d, j, j - 1)
    THEN insertionInner(swap(d, j, j - 1), a, j - 1)
    ELSE d

RECURSIVE insertionLoop(_, _, _, _)
insertionLoop(d, a, b, i) ==
    IF evaluated(d) /\ i < b
    THEN insertionLoop(insertionInner(d, a, i), a, b, i + 1)
    ELSE d

insertionSort_func(d, a, b) == insertionLoop(d, a, b, a + 1)

\* the child of root that siftDown_func compares root with
siftChild(d, root, hi, first) ==
    IF 2 * root + 2 < hi /\ lessAt(d, first + 2 * root + 1, first + 2 * root + 2)
    THEN 2 * root + 2 ELSE 2 * root + 1

RECURSIVE siftDown_func(_, _, _, _)
siftDown_func(d, root, hi, first) ==
    IF 2 * root + 1 >= hi
         \/ ~lessAt(d, first + root, first + siftChild(d, root, hi, first))
    THEN d
    ELSE siftDown_func(swap(d, first + root, first + siftChild(d, root, hi, first)),
                       siftChild(d, root, hi, first), hi, first)

\*   for i := (hi - 1) / 2; i >= 0; i-- { siftDown(data, i, hi, first) }
RECURSIVE heapBuild(_, _, _, _)
heapBuild(d, i, hi, first) ==
    IF evaluated(d) /\ i >= 0
    THEN heapBuild(siftDown_func(d, i, hi, first), i - 1, hi, first)
    ELSE d

\*   for i := hi - 1; i >= 0; i-- { swap(first, first+i); siftDown(data, 0, i, first) }
RECURSIVE heapDrain(_, _, _)
heapDrain(d, i, first) ==
    IF evaluated(d) /\ i >= 0
    THEN heapDrain(siftDown_func(swap(d, first, first + i), 0, i, first), i - 1, first)
    ELSE d

heapSort_func(d, a, b) ==
    heapDrain(heapBuild(d, (b - a - 1) \div 2, b - a, a), b - a - 1, a)

\* order2_func on positions: the pair in order, and the number of swaps
order2_func(d, p) ==
    IF lessAt(d, p.b, p.a) THEN [a |-> p.b, b |-> p.a, swaps |-> p.swaps + 1] ELSE p

\* median_func: the position of the median of data[a], data[b], data[c];
\* s1, s2 and s3 are the results of its three order2_func calls
medianOrdered(s3) == [at |-> s3.b, swaps |-> s3.swaps]

medianThird(d, s1, s2) ==
    after(s2, medianOrdered(order2_func(d, [a |-> s1.a, b |-> s2.a, swaps |-> s2.swaps])))

medianSecond(d, s1, c) ==
    after(s1, medianThird(d, s1, order2_func(d, [a |-> s1.b, b |-> c, swaps |-> s1.swaps])))

median_func(d, a, b, c, swaps) ==
    medianSecond(d, order2_func(d, [a |-> a, b |-> b, swaps |-> swaps]), c)

medianAdjacent_func(d, a, swaps) == median_func(d, a - 1, a, a + 1, swaps)

\* the switch on swaps that ends choosePivot_func
pivotHint(m) ==
    [pivot |-> m.at,
     hint  |-> IF m.swaps = 0 THEN "increasing"
               ELSE IF m.swaps = 4 * 3 THEN "decreasing" ELSE "unknown"]

\* choosePivot_func on 50 elements or more: i, j and k are replaced by the
\* medians of their neighbourhoods before the median of the three is taken
nintherLast(d, mi, mj, mk) ==
    after(mk, pivotHint(median_func(d, mi.at, mj.at, mk.at, mk.swaps)))

nintherThird(d, mi, mj, k) ==
    after(mj, nintherLast(d, mi, mj, medianAdjacent_func(d, k, mj.swaps)))

nintherSecond(d, mi, j, k) ==
    after(mi, nintherThird(d, mi, medianAdjacent_func(d, j, mi.swaps), k))

choosePivot_func(d, a, b) ==
    IF b - a >= 50
    THEN nintherSecond(d, medianAdjacent_func(d, a + ((b - a) \div 4) * 1, 0),
                       a + ((b - a) \div 4) * 2, a + ((b - a) \div 4) * 3)
    ELSE IF b - a >= 8
    THEN pivotHint(median_func(d, a + ((b - a) \div 4) * 1, a + ((b - a) \div 4) * 2,
                               a + ((b - a) \div 4) * 3, 0))
    ELSE pivotHint([at |-> a + ((b - a) \div 4) * 2, swaps |-> 0])

reverseRange_func(d, a, b) ==
    [k \in DOMAIN d |-> IF k - 1 >= a /\ k - 1 < b THEN d[a + b - (k - 1)] ELSE d[k]]

\* the loop "for j := i - 1; j >= 1; j-- { if !less(j, j-1) { break }; swap(j, j-1) }":
\* data[j] moves left past every element it is less than
shiftLeft(d, j) ==
    LET p == firstOf({q \in 0..j : \A k \in q..(j - 1) : less(d[j + 1], d[k + 1])}, j)
    IN  [k \in DOMAIN d |->
           IF k - 1 < p \/ k - 1 > j THEN d[k]
           ELSE IF k - 1 = p THEN d[j + 1] ELSE d[k - 1]]

\* the loop "for j := i + 1; j < b; j++ { if !less(j, j-1) { break }; swap(j, j-1) }":
\* data[j-1] moves right past every element that is less than it
shiftRight(d, j, b) ==
    LET p == lastOf({q \in (j - 1)..(b - 1) : \A k \in j..q : less(d[k + 1], d[j])}, j - 1)
    IN  [k \in DOMAIN d |->
           IF k - 1 < j - 1 \/ k - 1 > p THEN d[k]
           ELSE IF k - 1 = p THEN d[j] ELSE d[k + 1]]

\* partialInsertionSort_func from its step j on, i being its scan position
RECURSIVE partialInsertionStep(_, _, _, _, _)
partialInsertionStep(d, a, b, i, j) ==
    IF ~evaluated(d) \/ j >= 5 THEN [done |-> FALSE, data |-> d]
    ELSE LET i1 == firstOf({k \in i..(b - 1) : lessAt(d, k, k - 1)}, b)
         IN  IF i1 = b THEN [done |-> TRUE, data |-> d]
             ELSE IF b - a < 50 THEN [done |-> FALSE, data |-> d]
             ELSE LET d1 == swap(d, i1, i1 - 1)
                      d2 == IF i1 - a >= 2 THEN shiftLeft(d1, i1 - 1) ELSE d1
                      d3 == IF b - i1 >= 2 THEN shiftRight(d2, i1 + 1, b) ELSE d2
                  IN  partialInsertionStep(d3, a, b, i1, j + 1)

partialInsertionSort_func(d, a, b) == partialInsertionStep(d, a, b, a + 1, 0)

\* a uint64 is the set of the positions of its one bits
bitsOf(n) == {i \in 0..30 : (n \div (2 ^ i)) % 2 = 1}

shl(S, k) == {i + k : i \in {x \in S : x + k < 64}}

shr(S, k) == {i - k : i \in {x \in S : x >= k}}

xor(S, T) == (S \ T) \cup (T \ S)

\* xorshift.Next: r ^= r << 13; r ^= r >> 7; r ^= r << 17
xorshiftNext(r) ==
    LET r1 == xor(r, shl(r, 13))
        r2 == xor(r1, shr(r1, 7))
    IN  xor(r2, shl(r2, 17))

\* int(uint(r) & (modulus - 1)) for a power of two modulus
lowBits(r, modulus) ==
    CHOOSE v \in 0..(modulus - 1) : bitsOf(v) = {i \in r : i < 30 /\ 2 ^ i < modulus}

RECURSIVE breakSwaps(_, _, _, _, _, _)
breakSwaps(d, a, length, idx, random, i) ==
    IF ~evaluated(<<d, random>>) \/ i >= 3 THEN d
    ELSE LET r     == xorshiftNext(random)
             o     == lowBits(r, 2 ^ bitsLen(length))
             other == IF o >= length THEN o - length ELSE o
         IN  breakSwaps(swap(d, idx - 1 + i, a + other), a, length, idx, r, i + 1)

breakPatterns_func(d, a, b) ==
    LET length == b - a
    IN  IF length >= 8
        THEN breakSwaps(d, a, length, a + (length \div 4) * 2 - 1, bitsOf(length), 0)
        ELSE d

\* The scan loops of partition_func and partitionEqual_func work on the
\* positions lo..hi, data[lo-1] being the pivot, and Left being the positions
\* whose element belongs to the left part.  With c elements in Left the left
\* part is lo..lo+c-1.  i runs up to the next position of the left part whose
\* element belongs right, j runs down to the next position of the right part
\* whose element belongs left, the two are swapped, and so on until i > j:
\* the k-th misplaced position from the left is swapped with the k-th
\* misplaced position from the right.
hoareRanked(d, badL, badR, up, down) ==
    IF evaluated(<<up, down>>)
    THEN [k \in DOMAIN d |->
             IF k - 1 \in badL
             THEN d[(CHOOSE r \in badR : down[r] = up[k - 1]) + 1]
             ELSE IF k - 1 \in badR
             THEN d[(CHOOSE l \in badL : up[l] = down[k - 1]) + 1]
             ELSE d[k]]
    ELSE d

hoarePairs(d, badL, badR) ==
    hoareRanked(d, badL, badR,
                [k \in badL |-> Cardinality({x \in badL : x < k})],
                [k \in badR |-> Cardinality({x \in badR : x > k})])

hoare(d, lo, hi, Left) ==
    hoarePairs(d, {k \in lo..(lo + Cardinality(Left) - 1) : k \notin Left},
               {k \in Left : k >= lo + Cardinality(Left)})

\* partitionEqual_func after data.Swap(a, pivot): the elements the pivot is
\* not less than go left; it returns the first position of the right part
partitionEqualSplit(d, a, b, Left) ==
    [data |-> hoare(d, a + 1, b - 1, Left), mid |-> a + 1 + Cardinality(Left)]

partitionEqualPlaced(d, a, b) ==
    partitionEqualSplit(d, a, b, {k \in (a + 1)..(b - 1) : ~lessAt(d, a, k)})

partitionEqual_func(d, a, b, pivot) == partitionEqualPlaced(swap(d, a, pivot), a, b)

\* partition_func after data.Swap(a, pivot): the elements less than the
\* pivot go left, the pivot is then swapped to the end of the left part, and
\* the slice was already partitioned if no position was misplaced
partitionSplit(d, a, b, Left) ==
    [data |-> swap(hoare(d, a + 1, b - 1, Left), a + Cardinality(Left), a),
     mid  |-> a + Cardinality(Left),
     alreadyPartitioned |-> \A k \in Left : k <= a + Cardinality(Left)]

partitionPlaced(d, a, b) ==
    partitionSplit(d, a, b, {k \in (a + 1)..(b - 1) : lessAt(d, k, a)})

partition_func(d, a, b, pivot) == partitionPlaced(swap(d, a, pivot), a, b)

\* One round of the loop of pdqsort_func on more than 12 elements with
\* limit > 0, written as the steps it goes through, each handing what it
\* computed to the next.  A round ends the sort (over: done) or leaves the
\* range [a, b) for the next round and, after a partition, the range
\* [subA, subB) for the recursive call that comes first.
roundDone(d) ==
    [done |-> TRUE, data |-> d, a |-> 0, b |-> 0, limit |-> 0,
     wasBalanced |-> TRUE, wasPartitioned |-> TRUE, subA |-> 0, subB |-> 0]

\* the shorter side is sorted by the recursive call, the longer by the loop
roundPartitioned(p, a, b, limit) ==
    IF p.mid - a < b - p.mid
    THEN [done |-> FALSE, data |-> p.data, a |-> p.mid + 1, b |-> b, limit |-> limit,
          wasBalanced |-> p.mid - a >= (b - a) \div 8,
          wasPartitioned |-> p.alreadyPartitioned, subA |-> a, subB |-> p.mid]
    ELSE [done |-> FALSE, data |-> p.data, a |-> a, b |-> p.mid, limit |-> limit,
          wasBalanced |-> b - p.mid >= (b - a) \div 8,
          wasPartitioned |-> p.alreadyPartitioned, subA |-> p.mid + 1, subB |-> b]

roundEqual(pe, b, limit, wasBalanced, wasPartitioned) ==
    [done |-> FALSE, data |-> pe.data, a |-> pe.mid, b |-> b, limit |-> limit,
     wasBalanced |-> wasBalanced, wasPartitioned |-> wasPartitioned,
     subA |-> 0, subB |-> 0]

roundPartition(d, a, b, limit, wasBalanced, wasPartitioned, pivot) ==
    IF a > 0 /\ ~lessAt(d, a - 1, pivot)
    THEN roundEqual(partitionEqual_func(d, a, b, pivot), b, limit,
                    wasBalanced, wasPartitioned)
    ELSE roundPartitioned(partition_func(d, a, b, pivot), a, b, limit)

roundAfterPartial(pis, a, b, limit, wasBalanced, wasPartitioned, pivot) ==
    IF pis.done THEN roundDone(pis.data)
    ELSE roundPartition(pis.data, a, b, limit, wasBalanced, wasPartitioned, pivot)

roundSorted(d, a, b, limit, wasBalanced, wasPartitioned, sorted, pivot) ==
    after(d, roundAfterPartial(IF sorted THEN partialInsertionSort_func(d, a, b)
                               ELSE [done |-> FALSE, data |-> d],
                               a, b, limit, wasBalanced, wasPartitioned, pivot))

roundHint(d, a, b, limit, wasBalanced, wasPartitioned, cp) ==
    after(cp,
          roundSorted(IF cp.hint = "decreasing" THEN reverseRange_func(d, a, b) ELSE d,
                      a, b, limit, wasBalanced, wasPartitioned,
                      wasBalanced /\ wasPartitioned /\ cp.hint # "unknown",
                      IF cp.hint = "decreasing" THEN (b - 1) - (cp.pivot - a)
                      ELSE cp.pivot))

roundPivot(d, a, b, limit, wasBalanced, wasPartitioned) ==
    after(d, roundHint(d, a, b, limit, wasBalanced, wasPartitioned,
                       choosePivot_func(d, a, b)))

pdqsort_round(d, a, b, limit, wasBalanced, wasPartitioned) ==
    roundPivot(IF ~wasBalanced THEN breakPatterns_func(d, a, b) ELSE d, a, b,
               IF ~wasBalanced THEN limit - 1 ELSE limit,
               wasBalanced, wasPartitioned)

RECURSIVE pdqsort_loop(_, _, _, _, _, _)

\* what follows a round: pdqsort_func(data, subA, subB, limit) if the round
\* partitioned, and the next round of the loop
pdqsort_next(r) ==
    IF r.done THEN r.data
    ELSE LET sub == IF r.subA < r.subB
                    THEN pdqsort_loop(r.data, r.subA, r.subB, r.limit, TRUE, TRUE)
                    ELSE r.data
         IN  pdqsort_loop(sub, r.a, r.b, r.limit, r.wasBalanced, r.wasPartitioned)

pdqsort_loop(d, a, b, limit, wasBalanced, wasPartitioned) ==
    IF evaluated(d) /\ b - a <= 12 THEN insertionSort_func(d, a, b)
    ELSE IF limit = 0 THEN heapSort_func(d, a, b)
    ELSE pdqsort_next(pdqsort_round(d, a, b, limit, wasBalanced, wasPartitioned))

pdqsort_func(d, a, b, limit) == pdqsort_loop(d, a, b, limit, TRUE, TRUE)

sortSlice(syms) == pdqsort_func(syms, 0, Len(syms), bitsLen(Len(syms)))

\* The two loops that fill st.Index: every entry is set to sentinel, then
\*   for i := st.Nsymbols - 1; i >= 0; i-- { st.Index[st.Symbols[i+256][0]] = 256 + i }
\* leaves in Index[b] the smallest position whose symbol starts with b.
indexFill(syms, sentinel) ==
    [b \in 0..256 |->
        LET at == {i \in 0..(Len(syms) - 1) : syms[i + 1][1] = b}
        IN  IF at = {} THEN sentinel
            ELSE 256 + (CHOOSE i \in at : \A j \in at : i <= j)]

makeIndex(st) ==
    LET syms == sortSlice(SubSeq(st.Symbols, 257, Len(st.Symbols)))
    IN  [st EXCEPT
           !.Symbols = SubSeq(st.Symbols, 1, 256) \o syms,
           !.Index   = indexFill(syms, 256 + st.Nsymbols)]

\* matches that wants the text longer than the symbol
matchesShorter(st, txt, code) ==
    LET sym == Sym(st, code)
    IN  Len(txt) > Len(sym) /\ SubSeq(txt, 1, Len(sym)) = sym

\* whether the symbol at position code is a prefix of txt
matches(st, txt, code) ==
    LET sym == Sym(st, code)
    IN  Len(txt) >= Len(sym) /\ SubSeq(txt, 1, Len(sym)) = sym

\* The loop of findLongestSymbol walks code upwards from Index[letter] while
\* code < Index[letter+1] and returns at the first position that matches.
findLongestSymbol(st, txt) ==
    LET letter == txt[1]
        hits   == {code \in st.Index[letter]..(st.Index[letter + 1] - 1) :
                      matches(st, txt, code)}
    IN  IF hits = {} THEN [code |-> letter, len |-> 1]
        ELSE LET code == CHOOSE c \in hits : \A d \in hits : c <= d
             IN  [code |-> code, len |-> Len(Sym(st, code))]

(***************************************************************************)
(* Dictionary parser (fsst.go)                                             *)
(***************************************************************************)
\* number of symbols the header announces in its slots 0..i-1
RECURSIVE announced(_, _)
announced(d, i) == IF i = 0 THEN 0 ELSE announced(d, i - 1) + d[i]

\* number of bytes the symbols of the header slots 0..i-1 take
RECURSIVE announcedBytes(_, _)
announcedBytes(d, i) ==
    IF i = 0 THEN 0
    ELSE announcedBytes(d, i - 1) + d[i] * (MaxSymbolLength - (i - 1))

\* The two nested loops of newSymbolTableFromDict read the symbols one after
\* the other from offset 8 on: the m-th symbol read (m from 0) belongs to the
\* header slot i with announced(d, i) <= m < announced(d, i + 1), has length
\* 8 - i and starts where the symbols before it end.  The loops stop with an
\* error at the first symbol that ends past the blob.
readSymbols(d) ==
    LET total   == announced(d, MaxSymbolLength)
        slot(m) == CHOOSE i \in 0..(MaxSymbolLength - 1) :
                       announced(d, i) <= m /\ m < announced(d, i + 1)
        from(m) == MaxSymbolLength + announcedBytes(d, slot(m))
                     + (m - announced(d, slot(m))) * (MaxSymbolLength - slot(m))
        to(m)   == from(m) + (MaxSymbolLength - slot(m))
    IN  IF MaxSymbolLength + announcedBytes(d, MaxSymbolLength) > Len(d)
        THEN [err |-> "header claims more data than available", st |-> newSymbolTable]
        ELSE [err |-> "none",
              st  |-> [Nsymbols |-> total,
                       Index    |-> newSymbolTable.Index,
                       Symbols  |-> newSymbolTable.Symbols
                                      \o [m \in 1..total |->
                                            SubSeq(d, from(m - 1) + 1, to(m - 1))]]]

\* newSymbolTableFromDict with the symbol limit off by one (256 accepted)
newSymbolTableFromDictLax(d) ==
    IF Len(d) < MaxSymbolLength
    THEN [err |-> "data is too short", nil |-> TRUE, st |-> newSymbolTable]
    ELSE LET r == readSymbols(d)
         IN  IF r.err # "none"
             THEN [err |-> r.err, nil |-> TRUE, st |-> newSymbolTable]
             ELSE IF r.st.Nsymbols > NumSymbols
             THEN [err |-> "too many symbols", nil |-> TRUE, st |-> newSymbolTable]
             ELSE [err |-> "none", nil |-> FALSE, st |-> makeIndex(r.st)]

newSymbolTableFromDict(d) ==
    IF Len(d) < MaxSymbolLength
    THEN [err |-> "data is too short", nil |-> TRUE, st |-> newSymbolTable]
    ELSE LET r == readSymbols(d)
         IN  IF r.err # "none"
             THEN [err |-> r.err, nil |-> TRUE, st |-> newSymbolTable]
             ELSE IF r.st.Nsymbols > NumSymbols - 1
             THEN [err |-> "too many symbols", nil |-> TRUE, st |-> newSymbolTable]
             ELSE [err |-> "none", nil |-> FALSE, st |-> makeIndex(r.st)]

(***************************************************************************)
(* Encoder (fsst.go)                                                       *)
(***************************************************************************)
NewCompressor(d) ==
    LET r == newSymbolTableFromDict(d)
    IN  [err |-> r.err, nil |-> r.nil, table |-> r.st]

RECURSIVE compressFrom(_, _, _, _)
compressFrom(st, in, pos, out) ==
    IF evaluated(out) /\ pos < Len(in)
    THEN LET r == findLongestSymbol(st, SubSeq(in, pos + 1, Len(in)))
         IN  IF r.code < 256
             THEN compressFrom(st, in, pos + 1, out \o <<escapeMarker, in[pos + 1]>>)
             ELSE compressFrom(st, in, pos + r.len, Append(out, (r.code - 256) % 256))
    ELSE out

\* Compress that writes an unmatched byte without the escape marker
RECURSIVE compressBare(_, _, _, _)
compressBare(st, in, pos, out) ==
    IF evaluated(out) /\ pos < Len(in)
    THEN LET r == findLongestSymbol(st, SubSeq(in, pos + 1, Len(in)))
         IN  IF r.code < 256
             THEN compressBare(st, in, pos + 1, Append(out, in[pos + 1]))
             ELSE compressBare(st, in, pos + r.len, Append(out, (r.code - 256) % 256))
    ELSE out

CompressBare(c, in) == compressBare(c.table, in, 0, <<>>)

Compress(c, in) == compressFrom(c.table, in, 0, <<>>)

(***************************************************************************)
(* Decoder (fsst.go)                                                       *)
(***************************************************************************)
\* copy(dst[off:off+n], src) for n = Len(src)
copyInto(dst, off, src) ==
    [k \in DOMAIN dst |->
        IF k > off /\ k <= off + Len(src) THEN src[k - off] ELSE dst[k]]

\* unpack that starts one position early in st.Symbols
unpackOneEarly(st) ==
    [data |-> [k \in 1..MaxSize |->
                 LET i == (k - 1) \div MaxSymbolLength
                     o == (k - 1) % MaxSymbolLength
                 IN  IF i < st.Nsymbols /\ o < Len(Sym(st, 255 + i))
                     THEN Sym(st, 255 + i)[o + 1] ELSE 0],
     lens |-> [i \in 0..(NumSymbols - 1) |->
                 IF i < st.Nsymbols THEN Len(Sym(st, 255 + i)) % 256 ELSE 0]]

\* The loop of NewDecompressor writes symbol i into d.data[8*i : 8*i+len] and
\* its length into d.lens[i]; the rest of both arrays stays zero.
unpack(st) ==
    [data |-> [k \in 1..MaxSize |->
                 LET i == (k - 1) \div MaxSymbolLength
                     o == (k - 1) % MaxSymbolLength
                 IN  IF i < st.Nsymbols /\ o < Len(Sym(st, 256 + i))
                     THEN Sym(st, 256 + i)[o + 1] ELSE 0],
     lens |-> [i \in 0..(NumSymbols - 1) |->
                 IF i < st.Nsymbols THEN Len(Sym(st, 256 + i)) % 256 ELSE 0]]

NewDecompressor(d) ==
    LET r    == newSymbolTableFromDict(d)
        zero == [data |-> [k \in 1..MaxSize |-> 0],
                 lens |-> [k \in 0..(NumSymbols - 1) |-> 0]]
    IN  IF r.nil
        THEN [err |-> r.err, nil |-> TRUE, data |-> zero.data, lens |-> zero.lens]
        ELSE LET u == unpack(r.st)
             IN  [err |-> "none", nil |-> FALSE, data |-> u.data, lens |-> u.lens]

\* first pass of Decompress: the output size, or the error
RECURSIVE scanSize(_, _, _, _)
scanSize(d, in, scanPos, outputSize) ==
    IF evaluated(outputSize) /\ scanPos < Len(in)
    THEN LET code == in[scanPos + 1]
         IN  IF code = escapeMarker
             THEN IF scanPos + 1 >= Len(in)
                  THEN [err |-> "stream ends with an escape code", size |-> 0]
                  ELSE scanSize(d, in, scanPos + 2, outputSize + 1)
             ELSE LET ln == d.lens[code]
                  IN  IF ln = 0
                      THEN [err |-> "symbol code do not exist in dictionary", size |-> 0]
                      ELSE scanSize(d, in, scanPos + 1, outputSize + ln)
    ELSE [err |-> "none", size |-> outputSize]

\* second pass of Decompress.  oob records an index or slice bound outside
\* input, output or d.data (a run-time panic in Go).
RECURSIVE copyOut(_, _, _, _, _)
copyOut(d, in, output, pos, dst) ==
    IF evaluated(output) /\ pos < Len(in)
    THEN LET code == in[pos + 1]
         IN  IF code = 255
             THEN IF pos + 1 >= Len(in) \/ dst >= Len(output)
                  THEN [oob |-> TRUE, output |-> output, dst |-> dst]
                  ELSE copyOut(d, in, [output EXCEPT ![dst + 1] = in[pos + 2]],
                               pos + 2, dst + 1)
             ELSE LET symLen == d.lens[code]
                      from   == code * 8
                  IN  IF dst + symLen > Len(output) \/ from + symLen > MaxSize
                      THEN [oob |-> TRUE, output |-> output, dst |-> dst]
                      ELSE copyOut(d, in,
                                   copyInto(output, dst,
                                            SubSeq(d.data, from + 1, from + symLen)),
                                   pos + 1, dst + symLen)
    ELSE [oob |-> FALSE, output |-> output, dst |-> dst]

\* Decompress whose first pass checks the byte after an escape one position
\* too late
RECURSIVE scanSizeLate(_, _, _, _)
scanSizeLate(d, in, scanPos, outputSize) ==
    IF evaluated(outputSize) /\ scanPos < Len(in)
    THEN LET code == in[scanPos + 1]
         IN  IF code = escapeMarker
             THEN IF scanPos + 1 > Len(in)
                  THEN [err |-> "stream ends with an escape code", size |-> 0]
                  ELSE scanSizeLate(d, in, scanPos + 2, outputSize + 1)
             ELSE LET ln == d.lens[code]
                  IN  IF ln = 0
                      THEN [err |-> "symbol code do not exist in dictionary", size |-> 0]
                      ELSE scanSizeLate(d, in, scanPos + 1, outputSize + ln)
    ELSE [err |-> "none", size |-> outputSize]

DecompressLate(d, in) ==
    LET p1 == scanSizeLate(d, in, 0, 0)
    IN  IF p1.err # "none"
        THEN [err |-> p1.err, nil |-> TRUE, output |-> <<>>,
              size |-> 0, written |-> 0, oob |-> FALSE]
        ELSE LET p2 == copyOut(d, in, [k \in 1..p1.size |-> 0], 0, 0)
             IN  [err |-> "none", nil |-> FALSE, output |-> p2.output,
                  size |-> p1.size, written |-> p2.dst, oob |-> p2.oob]

Decompress(d, in) ==
    LET p1 == scanSize(d, in, 0, 0)
    IN  IF p1.err # "none"
        THEN [err |-> p1.err, nil |-> TRUE, output |-> <<>>,
              size |-> 0, written |-> 0, oob |-> FALSE]
        ELSE LET p2 == copyOut(d, in, [k \in 1..p1.size |-> 0], 0, 0)
             IN  [err |-> "none", nil |-> FALSE, output |-> p2.output,
                  size |-> p1.size, written |-> p2.dst, oob |-> p2.oob]

(***************************************************************************)
(* Trainer (Builder)                                                       *)
(***************************************************************************)
\* A sample list is [recs, n]: n records, record i being recs[i % Len(recs)]
\* (a list written out in full has n = Len(recs)).
textLen(t) == t.n

textAt(t, i) == t.recs[(i % Len(t.recs)) + 1]

\* x ^ y on the low nbits bits
RECURSIVE xorBits(_, _, _)
xorBits(x, y, nbits) ==
    IF nbits = 0 THEN 0
    ELSE ((x + y) % 2) + 2 * xorBits(x \div 2, y \div 2, nbits - 1)

\* int(fsst_hash(uint64(i)) & 127) for 0 <= i < 2^30.  With w = i * 2971215073
\* (mod 2^64), fsst_hash is w ^ (w >> 15); its low 7 bits are those of
\* L0 ^ L1, where L0 and L1 are the two low base-2^15 digits of w.  The
\* multiplier is 2 * 2^30 + 25138 * 2^15 + 9441; the digits are computed
\* separately so that every intermediate value fits 31 bits.
fsst_hash127(i) ==
    LET i0    == i % 32768
        i1    == i \div 32768
        p0    == i0 * 9441
        L0    == p0 % 32768
        carry == p0 \div 32768
        L1    == (((i0 * 25138) % 32768) + ((i1 * 9441) % 32768) + carry) % 32768
    IN  xorBits(L0 % 128, L1 % 128, 7)

\* the records compressCount does not skip at sample fraction sf
admitted(sf, i) == ~(sf < 128 /\ fsst_hash127(i) > sf)

\* an int16 holding the integer v (two's complement wrap-around)
int16(v) == ((v + 32768) % 65536) - 32768

isEscapeCode(code) == IF code >= 256 THEN 0 ELSE 1

\* the codes compressCount walks through on one non-empty record
RECURSIVE tokensFrom(_, _, _, _)
tokensFrom(st, str, cur, toks) ==
    IF evaluated(toks) /\ cur < Len(str)
    THEN LET r == findLongestSymbol(st, SubSeq(str, cur + 1, Len(str)))
         IN  tokensFrom(st, str, cur + r.len, Append(toks, r.code))
    ELSE toks

tokens(st, str) == tokensFrom(st, str, 0, <<>>)

\* number of records i < n with i % Len(recs) = k that are not skipped
recordUses(t, sf, k) ==
    Cardinality({i \in 0..(textLen(t) - 1) : i % Len(t.recs) = k /\ admitted(sf, i)})

\* the records compressCount walks (Go indices into t.recs), each with the
\* codes the walk goes through
walked(st, sf, t) ==
    [k \in {j \in 0..(Len(t.recs) - 1) :
               recordUses(t, sf, j) > 0 /\ Len(t.recs[j + 1]) > 0} |->
        tokens(st, t.recs[k + 1])]

\* the smaller half of a set of numbers
lowerHalf(S) == {x \in S : Cardinality({y \in S : y < x}) < Cardinality(S) \div 2}

\* the sum of f over S
RECURSIVE sum(_, _)
sum(f, S) ==
    IF Cardinality(S) > 1 THEN sum(f, lowerHalf(S)) + sum(f, S \ lowerHalf(S))
    ELSE IF S = {} THEN 0
    ELSE f[CHOOSE k \in S : TRUE]

\* b.count1[code] += 1 runs once for every position of a walk that holds
\* code: the number of such positions over the walks, the walk of record k
\* being made uses[k] times
count1Of(toks, uses, code) ==
    sum([k \in DOMAIN toks |->
            uses[k] * Cardinality({q \in 1..Len(toks[k]) : toks[k][q] = code})],
        DOMAIN toks)

\* b.count2[code1][code2] += 1 runs once for every position of a walk that
\* holds code1 and is followed by code2
count2Of(toks, uses, pr) ==
    sum([k \in DOMAIN toks |->
            uses[k] * Cardinality({q \in 1..(Len(toks[k]) - 1) :
                                     <<toks[k][q], toks[k][q + 1]>> = pr})],
        DOMAIN toks)

\* how many times each code and each pair of adjacent codes is counted over
\* the given walks (exact integers, over the codes and pairs that occur)
tallyWalked(toks, uses) ==
    IF evaluated(<<toks, uses>>)
    THEN [c1 |-> [code \in UNION {{toks[k][p] : p \in 1..Len(toks[k])} : k \in DOMAIN toks}
                     |-> count1Of(toks, uses, code)],
          c2 |-> [pr \in UNION {{<<toks[k][p], toks[k][p + 1]>> :
                                    p \in 1..(Len(toks[k]) - 1)} : k \in DOMAIN toks}
                     |-> count2Of(toks, uses, pr)]]
    ELSE [c1 |-> <<>>, c2 |-> <<>>]

\* the loop of compressCount over the records
tallyUsed(toks, t, sf) ==
    tallyWalked(toks, [k \in DOMAIN toks |-> recordUses(t, sf, k)])

tally(st, sf, t) == tallyUsed(walked(st, sf, t), t, sf)

noCounts == [c1 |-> [c \in {} |-> 0], c2 |-> [c \in {} |-> 0]]

\* compressCount: the counters are int16, so a counter incremented m times
\* from 0 holds int16(m)
compressCount(st, sf, t) ==
    LET n == tally(st, sf, t)
    IN  [count1 |-> [c \in DOMAIN n.c1 |-> int16(n.c1[c])],
         count2 |-> [pr \in DOMAIN n.c2 |-> int16(n.c2[pr])]]

\* b.count1[c] and b.count2[c1][c2] of the sparse counters
at1(c1, c) == IF c \in DOMAIN c1 THEN c1[c] ELSE 0

at2(c2, a, b) == IF <<a, b>> \in DOMAIN c2 THEN c2[<<a, b>>] ELSE 0

(***************************************************************************)
(* priorityQueue under container/heap: a max-heap on priority              *)
(***************************************************************************)
pqLess(pq, i, j) == pq[i + 1].priority > pq[j + 1].priority

\* up(h, j) of container/heap
RECURSIVE heapUp(_, _)
heapUp(pq, j) ==
    IF j = 0 \/ ~pqLess(pq, j, (j - 1) \div 2) THEN pq
    ELSE heapUp(swap(pq, (j - 1) \div 2, j), (j - 1) \div 2)

\* the child of i that down(h, i, n) of container/heap compares i with
heapChild(pq, i, n) ==
    IF 2 * i + 2 < n /\ pqLess(pq, 2 * i + 2, 2 * i + 1) THEN 2 * i + 2 ELSE 2 * i + 1

\* down(h, i, n) of container/heap
RECURSIVE heapDown(_, _, _)
heapDown(pq, i, n) ==
    IF 2 * i + 1 >= n \/ ~pqLess(pq, heapChild(pq, i, n), i) THEN pq
    ELSE heapDown(swap(pq, i, heapChild(pq, i, n)), heapChild(pq, i, n), n)

heapPush(pq, item) == heapUp(Append(pq, item), Len(pq))

\* heap.Pop: the popped item and the remaining queue
heapPop(pq) ==
    LET n == Len(pq) - 1
        h == heapDown(swap(pq, 0, n), 0, n)
    IN  [item |-> h[n + 1], pq |-> SubSeq(h, 1, n)]

(***************************************************************************)
(* makeTable and Finnalize                                                 *)
(***************************************************************************)
addCandidate(pq, symbol, count) ==
    LET gain == Len(symbol) * count
    IN  heapPush(pq, [value    |-> symbol,
                      priority |-> IF Len(symbol) = 1 THEN gain * 8 ELSE gain])

\* The loops of makeTable run over the 512 codes, and a code without a count
\* adds nothing.  Each loop is written as a fold over the set of the codes
\* that have a count: it folds the lower half of the set (lowerHalf) and
\* then, from its result, the upper half, which visits the codes in the
\* loop's order.
\* the codes code1 < 512 with an entry in count1 or in the row count2[code1]
counted(c1, c2) ==
    (DOMAIN c1 \cup {pr[1] : pr \in DOMAIN c2}) \cap (0..(CountSlots - 1))

\* the codes code2 < 512 with an entry in the row count2[code1]
countedWith(c2, code1) ==
    {pr[2] : pr \in {q \in DOMAIN c2 : q[1] = code1}} \cap (0..(CountSlots - 1))

\* the body of the inner loop of makeTable
pairCandidate(st, c2, pq, code1, code2) ==
    IF at2(c2, code1, code2) > 0 /\ Len(Sym(st, code1)) + Len(Sym(st, code2)) <= 8
    THEN addCandidate(pq, Sym(st, code1) \o Sym(st, code2), at2(c2, code1, code2))
    ELSE pq

\* the inner loop of makeTable for one code1: code2 over codes
RECURSIVE pairCandidates(_, _, _, _, _)
pairCandidates(st, c2, pq, code1, codes) ==
    IF Cardinality(codes) > 1
    THEN LET lower == pairCandidates(st, c2, pq, code1, lowerHalf(codes))
         IN  IF evaluated(lower)
             THEN pairCandidates(st, c2, lower, code1, codes \ lowerHalf(codes))
             ELSE lower
    ELSE IF codes = {} THEN pq
    ELSE pairCandidate(st, c2, pq, code1, CHOOSE code2 \in codes : TRUE)

\* the body of the outer loop of makeTable for one code1
candidatesOf(st, c1, c2, pq, code1) ==
    pairCandidates(st, c2,
                   IF at1(c1, code1) > 0
                   THEN addCandidate(pq, Sym(st, code1), at1(c1, code1))
                   ELSE pq,
                   code1, countedWith(c2, code1))

\* the outer loop of makeTable: code1 over codes
RECURSIVE candidates(_, _, _, _, _)
candidates(st, c1, c2, pq, codes) ==
    IF Cardinality(codes) > 1
    THEN LET lower == candidates(st, c1, c2, pq, lowerHalf(codes))
         IN  IF evaluated(lower)
             THEN candidates(st, c1, c2, lower, codes \ lowerHalf(codes))
             ELSE lower
    ELSE IF codes = {} THEN pq
    ELSE candidatesOf(st, c1, c2, pq, CHOOSE code1 \in codes : TRUE)

\* for nst.Nsymbols < 255 && pq.Len() > 0 { nst.Insert(heap.Pop(&pq).value) },
\* as n pops and inserts; the loop makes min(255 - Nsymbols, pq.Len()) of them
popped(nst, r) == [nst |-> insert(nst, r.item.value), pq |-> r.pq]

RECURSIVE popInsert(_, _)
popInsert(acc, n) ==
    IF n > 1
    THEN LET lower == popInsert(acc, n \div 2)
         IN  IF evaluated(lower) THEN popInsert(lower, n - (n \div 2)) ELSE lower
    ELSE IF n = 0 THEN acc
    ELSE popped(acc.nst, heapPop(acc.pq))

\* the loop of makeTable without its limit on nst.Nsymbols
fillTableUncapped(nst, pq) ==
    popInsert([nst |-> nst, pq |-> pq], Len(pq)).nst

fillTable(nst, pq) ==
    LET room == IF nst.Nsymbols < TableCap THEN TableCap - nst.Nsymbols ELSE 0
    IN  popInsert([nst |-> nst, pq |-> pq],
                  IF Len(pq) < room THEN Len(pq) ELSE room).nst

makeTable(st, c1, c2) ==
    makeIndex(fillTable(newSymbolTable, candidates(st, c1, c2, <<>>, counted(c1, c2))))

\* the learned symbols of length i, in table order
symbolsOfLen(st, i) ==
    SelectSeq(SubSeq(st.Symbols, 257, 256 + st.Nsymbols), LAMBDA sym : Len(sym) = i)

\* the bytes of the symbols ss, all of length i, one after the other
joined(ss, i) ==
    [k \in 1..(i * Len(ss)) |-> ss[((k - 1) \div i) + 1][((k - 1) % i) + 1]]

\* output[8-i] = curLen, a uint8 counting the symbols of length i
RECURSIVE bodies(_, _)
bodies(st, i) ==
    IF i = 0 THEN <<>> ELSE joined(symbolsOfLen(st, i), i) \o bodies(st, i - 1)

Finnalize(st) ==
    [k \in 1..8 |-> Len(symbolsOfLen(st, 9 - k)) % 256] \o bodies(st, 8)

(***************************************************************************)
(* Bounds and the inputs drawn within them                                 *)
(***************************************************************************)
MaxSyms == 2

MaxCnt == 2

MaxInput == 3

MaxStream == 3

MaxText == 2

MaxRecs == 2

ManyRecords == 32768

RECURSIVE Strings(_, _)
Strings(B, n) ==
    IF n = 0 THEN {<<>>}
    ELSE LET S == Strings(B, n - 1)
         IN  S \cup {Append(x, b) : x \in S, b \in B}

repeat(x, n) == [k \in 1..n |-> x]

\* learned symbols for hand-built tables: buckets 0, 97, 98 and 255, with
\* symbols that tie in first byte and length; the lists are every short list
\* over the pool, two longer ones, and one of thirteen symbols (twelve of one
\* bucket and length, then a one-byte symbol of an earlier bucket)
SymPool ==
    {<<0>>, <<97>>, <<98>>, <<255>>, <<97, 97>>, <<97, 98>>, <<98, 97>>,
     <<255, 0>>, <<97, 98, 97>>, repeat(97, 8)}

SymLists ==
    Strings(SymPool, MaxSyms)
      \cup {<<<<98, 97>>, <<97>>, <<97, 98>>, <<255>>, <<97, 97>>, <<98, 98>>>>,
            <<<<97, 97>>, <<97, 98, 97>>, <<97, 98>>, repeat(97, 8), <<97>>>>,
            [k \in 1..12 |-> <<98, 96 + k>>] \o <<<<97>>>>}

RECURSIVE insertAll(_, _)
insertAll(st, syms) ==
    IF ~evaluated(st) \/ syms = <<>> THEN st
    ELSE insertAll(insert(st, Head(syms)), Tail(syms))

\* header[i] counts the symbols of length 8 - i
header(c8, c2, c1) == <<c8, 0, 0, 0, 0, 0, c2, c1>>

bodyBytes == <<97, 98, 255, 0>>

body(n, seed) == [k \in 1..n |-> bodyBytes[(((k - 1) * seed) % 4) + 1]]

need(h) == 8 * h[1] + 2 * h[7] + h[8]

Headers ==
    {header(c8, c2, c1) : c8 \in 0..1, c2 \in 0..MaxCnt, c1 \in 0..MaxCnt}
      \cup {header(0, c2, TableCap) : c2 \in 0..1}

\* blobs: too short, truncated by one byte, exact, and with one trailing byte
Blobs ==
    {repeat(0, n) : n \in 0..7}
      \cup UNION {{h \o body(need(h) + delta, seed) :
                      delta \in {x \in {-1, 0, 1} : need(h) + x >= 0},
                      seed \in 0..1} : h \in Headers}

InputBytes == {0, 97, 255}

Inputs == Strings(InputBytes, MaxInput)

StreamBytes == {0, 1, 255}

Streams == Strings(StreamBytes, MaxStream)

\* texts looked up in a table: first bytes with a bucket (0, 97, 98, 255),
\* without one before a bucket (96, 254) and without one after a bucket (99),
\* and texts as long as the longest symbol and longer
TextBytes == {0, 96, 97, 98, 99, 254, 255}

Texts ==
    (Strings(TextBytes, MaxText) \ {<<>>})
      \cup {<<97, 98, 97>>, <<97, 98, 98>>, <<97, 97, 97>>, repeat(97, 7),
            repeat(97, 8), repeat(97, 9)}

RecordPool ==
    {<<>>, <<97>>, <<98>>, <<97, 97>>, <<97, 98>>, <<98, 97>>, <<97, 97, 98>>,
     <<97, 98, 97, 98>>}

list(recs) == [recs |-> recs, n |-> Len(recs)]

\* sample lists: every short list of short records, the lists of the
\* round-trip test, sixteen records that hold every byte value between them,
\* and one record repeated many times
SampleLists ==
    {list(l) : l \in Strings(RecordPool, MaxRecs)}
      \cup {list(<<<<>>, <<97>>, <<97, 98>>, repeat(97, 15), <<0, 1, 2, 3>>>>),
            list(<<repeat(97, 15)>>),
            list(<<[k \in 1..12 |-> 97 + ((k - 1) % 4)]>>),
            list([r \in 1..16 |-> [k \in 1..16 |-> 16 * (r - 1) + (k - 1)]]),
            [recs |-> <<<<97>>>>, n |-> ManyRecords]}

(***************************************************************************)
(* State machine                                                           *)
(***************************************************************************)
noCompressor == [err |-> "none", nil |-> TRUE, table |-> newSymbolTable]

noDecompressor ==
    [err |-> "none", nil |-> TRUE,
     data |-> [k \in 1..MaxSize |-> 0], lens |-> [k \in 0..(NumSymbols - 1) |-> 0]]

noResult ==
    [err |-> "none", nil |-> TRUE, output |-> <<>>,
     size |-> 0, written |-> 0, oob |-> FALSE]

InitRest ==
    /\ sampleFrac = 0
    /\ count1 = noCounts.c1
    /\ count2 = noCounts.c2
    /\ comp = noCompressor
    /\ decomp = noDecompressor
    /\ input = <<>>
    /\ compressed = <<>>
    /\ result = noResult

\* a dictionary blob handed to the constructors, or a table a Builder holds
Init ==
    /\ \/ /\ origin = "blob"
          /\ dict \in Blobs
          /\ table = newSymbolTable
          /\ pc = "dict"
       \/ /\ origin = "table"
          /\ dict = <<>>
          /\ \E syms \in SymLists : table = makeIndex(insertAll(newSymbolTable, syms))
          /\ pc = "final"
    /\ text = list(<<>>)
    /\ InitRest

\* a Builder before Build(text)
InitBuild ==
    /\ origin = "build"
    /\ text \in SampleLists
    /\ table = newSymbolTable
    /\ dict = <<>>
    /\ pc = "start"
    /\ InitRest

BuildStart ==
    /\ pc = "start"
    /\ table' = newSymbolTable
    /\ sampleFrac' = 8
    /\ pc' = "count"
    /\ UNCHANGED <<origin, text, count1, count2, dict, comp, decomp, input,
                   compressed, result>>

CompressCountCall ==
    /\ pc = "count"
    /\ LET c == compressCount(table, sampleFrac, text)
       IN  /\ count1' = c.count1
           /\ count2' = c.count2
    /\ pc' = "make"
    /\ UNCHANGED <<origin, text, sampleFrac, table, dict, comp, decomp, input,
                   compressed, result>>

\* b.table = b.makeTable(), the counters are cleared, sampleFrac += 30
MakeTableCall ==
    /\ pc = "make"
    /\ table' = makeTable(table, count1, count2)
    /\ count1' = noCounts.c1
    /\ count2' = noCounts.c2
    /\ sampleFrac' = sampleFrac + 30
    /\ pc' = IF sampleFrac + 30 <= 128 THEN "count" ELSE "final"
    /\ UNCHANGED <<origin, text, dict, comp, decomp, input, compressed, result>>

FinnalizeCall ==
    /\ pc = "final"
    /\ dict' = Finnalize(table)
    /\ pc' = "dict"
    /\ UNCHANGED <<origin, text, sampleFrac, table, count1, count2, comp, decomp,
                   input, compressed, result>>

NewCompressorCall ==
    /\ pc = "dict"
    /\ comp' = NewCompressor(dict)
    /\ pc' = "comp"
    /\ UNCHANGED <<origin, text, sampleFrac, table, count1, count2, dict, decomp,
                   input, compressed, result>>

NewDecompressorCall ==
    /\ pc = "comp"
    /\ decomp' = NewDecompressor(dict)
    /\ pc' = IF comp.nil \/ decomp'.nil THEN "rejected" ELSE "ready"
    /\ UNCHANGED <<origin, text, sampleFrac, table, count1, count2, dict, comp,
                   input, compressed, result>>

\* the strings handed to Compress: short strings over InputBytes and, after
\* Build, the sample records themselves
CompressInputs ==
    Inputs \cup {text.recs[k] : k \in 1..Len(text.recs)}

CompressCall ==
    /\ pc = "ready"
    /\ \E in \in CompressInputs :
          /\ input' = in
          /\ compressed' = Compress(comp, in)
    /\ pc' = "compressed"
    /\ UNCHANGED <<origin, text, sampleFrac, table, count1, count2, dict, comp,
                   decomp, result>>

\* Decompress on what Compress returned
DecompressCall ==
    /\ pc = "compressed"
    /\ result' = Decompress(decomp, compressed)
    /\ pc' = "done"
    /\ UNCHANGED <<origin, text, sampleFrac, table, count1, count2, dict, comp,
                   decomp, input, compressed>>

\* Decompress on an arbitrary byte stream
DecompressStreamCall ==
    /\ pc = "ready"
    /\ \E s \in Streams :
          /\ compressed' = s
          /\ result' = Decompress(decomp, s)
    /\ pc' = "decoded"
    /\ UNCHANGED <<origin, text, sampleFrac, table, count1, count2, dict, comp,
                   decomp, input>>

Next ==
    \/ FinnalizeCall
    \/ NewCompressorCall
    \/ NewDecompressorCall
    \/ CompressCall
    \/ DecompressCall
    \/ DecompressStreamCall

Spec == Init /\ [][Next]_vars

NextBuild ==
    \/ BuildStart
    \/ CompressCountCall
    \/ MakeTableCall
    \/ FinnalizeCall
    \/ NewCompressorCall
    \/ NewDecompressorCall
    \/ CompressCall
    \/ DecompressCall

SpecBuild == InitBuild /\ [][NextBuild]_vars

(***************************************************************************)
(* Properties of the codec (specification Spec)                            *)
(***************************************************************************)
\* the positions of the learned symbols of a table
learned(st) == 256..(255 + st.Nsymbols)

isPrefix(sym, txt) ==
    Len(sym) <= Len(txt) /\ \A k \in 1..Len(sym) : sym[k] = txt[k]

prefixCodes(st, txt) == {c \in learned(st) : isPrefix(st.Symbols[c + 1], txt)}

greedy(st, txt) ==
    LET r == findLongestSymbol(st, txt)
        P == prefixCodes(st, txt)
    IN  IF P = {} THEN r = [code |-> txt[1], len |-> 1]
        ELSE /\ r.code \in P
             /\ r.len = Len(st.Symbols[r.code + 1])
             /\ \A c \in P : Len(st.Symbols[c + 1]) <= r.len

\* C7: on an indexed table, for every non-empty text, findLongestSymbol
\* returns a learned symbol that is a prefix of the text and no shorter than
\* any other learned prefix, and returns (text[0], 1) exactly when no learned
\* symbol is a prefix of the text.
C7_GreedyLongestMatch ==
    /\ (origin = "table" /\ pc = "final") => \A txt \in Texts : greedy(table, txt)
    /\ (pc = "comp" /\ ~comp.nil) => \A txt \in Texts : greedy(comp.table, txt)

\* a table where one text has two learned prefixes of different lengths and
\* another text misses in a bucket that is followed by an empty bucket and by
\* symbols of later buckets
C7_Witness ==
    /\ pc = "comp"
    /\ ~comp.nil
    /\ \E txt \in Texts :
          \E c1 \in prefixCodes(comp.table, txt), c2 \in prefixCodes(comp.table, txt) :
             /\ Len(comp.table.Symbols[c1 + 1]) < Len(comp.table.Symbols[c2 + 1])
             /\ findLongestSymbol(comp.table, txt).code = c2
    /\ \E txt \in Texts :
          /\ prefixCodes(comp.table, txt) = {}
          /\ \E c \in learned(comp.table) : comp.table.Symbols[c + 1][1] = txt[1]
          /\ \A c \in learned(comp.table) : comp.table.Symbols[c + 1][1] # txt[1] + 1
          /\ \E c \in learned(comp.table) : comp.table.Symbols[c + 1][1] > txt[1] + 1
          /\ findLongestSymbol(comp.table, txt) = [code |-> txt[1], len |-> 1]

\* C9: after makeIndex the index is non-decreasing over its 257 entries, its
\* last entry is the sentinel one past the last learned symbol, and the
\* learned symbols with first byte b are exactly those at the positions
\* Index[b] up to but excluding Index[b+1].
C9_IndexInvariant ==
    (pc = "comp" /\ ~comp.nil) =>
        LET st == comp.table
        IN  /\ \A b \in 0..255 : st.Index[b] <= st.Index[b + 1]
            /\ st.Index[256] = 256 + st.Nsymbols
            /\ \A b \in 0..255 :
                  {c \in learned(st) : st.Symbols[c + 1][1] = b}
                      = st.Index[b]..(st.Index[b + 1] - 1)

\* C5: parsing the blob Finnalize writes for an indexed table, and indexing
\* the result, yields the table itself: the same learned symbols at the same
\* positions and the same index.
C5_CodecStability ==
    (origin = "table" /\ pc = "comp") => (~comp.nil /\ comp.table = table)

\* every input byte preceded by the escape marker
interleaved(s) ==
    [k \in 1..(2 * Len(s)) |-> IF k % 2 = 1 THEN 255 ELSE s[k \div 2]]

\* C6: Compress returns at most twice as many bytes as it is given, and with
\* no learned symbols exactly each input byte preceded by 0xFF.
C6_BoundedBlowUp ==
    pc = "compressed" =>
        /\ Len(compressed) <= 2 * Len(input)
        /\ comp.table.Nsymbols = 0 => compressed = interleaved(input)

\* a three-byte input compressed under a dictionary without learned symbols
C6_Witness ==
    /\ pc = "compressed"
    /\ comp.table.Nsymbols = 0
    /\ Len(input) = 3
    /\ Len(compressed) = 6

\* what the header of a blob of at least 8 bytes announces
declared(d) == d[1] + d[2] + d[3] + d[4] + d[5] + d[6] + d[7] + d[8]

declaredBytes(d) ==
    8 * d[1] + 7 * d[2] + 6 * d[3] + 5 * d[4] + 4 * d[5] + 3 * d[6] + 2 * d[7] + d[8]

invalidDict(d) ==
    \/ Len(d) < 8
    \/ 8 + declaredBytes(d) > Len(d)
    \/ declared(d) > 255

\* C3: the constructors return an error and no instance exactly for a blob
\* shorter than 8 bytes, a header that announces a symbol past the end of the
\* blob, or more than 255 announced symbols; otherwise the instance holds
\* exactly header[i] symbols of length 8-i for every i.
C3_ConstructorErrors ==
    /\ pc \in {"comp", "ready", "rejected"} =>
          /\ comp.nil <=> invalidDict(dict)
          /\ comp.nil <=> comp.err # "none"
          /\ ~comp.nil =>
                /\ comp.table.Nsymbols = declared(dict)
                /\ Len(comp.table.Symbols) = 256 + declared(dict)
                /\ comp.table.Index[256] = 256 + declared(dict)
                /\ \A i \in 0..7 :
                      Cardinality({c \in learned(comp.table) :
                                      Len(comp.table.Symbols[c + 1]) = 8 - i}) = dict[i + 1]
    /\ pc \in {"ready", "rejected"} =>
          /\ decomp.nil <=> invalidDict(dict)
          /\ decomp.nil <=> decomp.err # "none"
          /\ ~decomp.nil =>
                \A i \in 0..7 :
                   Cardinality({c \in 0..255 : decomp.lens[c] = 8 - i}) = dict[i + 1]

\* a blob that holds every symbol its header announces, 256 of them
C3_Witness ==
    /\ pc = "rejected"
    /\ Len(dict) >= 8
    /\ 8 + declaredBytes(dict) <= Len(dict)
    /\ declared(dict) = 256
    /\ comp.nil
    /\ decomp.nil
    /\ comp.err = "too many symbols"

\* the positions of a stream at which the decoder's walk reads a code
tokenStarts(lens, in) ==
    LET start[p \in 0..Len(in)] ==
            \/ p = 0
            \/ p >= 1 /\ start[p - 1] /\ in[p] # 255 /\ lens[in[p]] # 0
            \/ p >= 2 /\ start[p - 2] /\ in[p - 1] = 255
    IN  {p \in 0..Len(in) : start[p]}

malformed(lens, in) ==
    \E q \in tokenStarts(lens, in) :
        /\ q < Len(in)
        /\ \/ in[q + 1] = 255 /\ q + 1 = Len(in)
           \/ in[q + 1] # 255 /\ lens[in[q + 1]] = 0

\* C2: Decompress returns an error, and no output, exactly when its walk
\* reaches an escape byte without a following byte or a byte whose slot has
\* length 0; otherwise the second pass writes exactly the bytes the first
\* pass counted and nothing is read or written out of bounds.
C2_DecompressErrors ==
    pc \in {"decoded", "done"} =>
        /\ result.err # "none" <=> malformed(decomp.lens, compressed)
        /\ result.err # "none" => (result.nil /\ result.output = <<>>)
        /\ result.err = "none" =>
              /\ ~result.nil
              /\ ~result.oob
              /\ result.written = result.size
              /\ Len(result.output) = result.size

\* a stream whose first byte is a code of the dictionary and whose last byte
\* is an escape without a literal
C2_Witness ==
    /\ pc = "decoded"
    /\ Len(compressed) >= 2
    /\ compressed[1] # 255
    /\ decomp.lens[compressed[1]] > 0
    /\ compressed[Len(compressed)] = 255
    /\ result.err = "stream ends with an escape code"
    /\ result.nil
(***************************************************************************)
(* Properties of the trainer (specification SpecBuild)                     *)
(***************************************************************************)
\* C1: with the dictionary Build returns for a sample list, a Compressor
\* and a Decompressor are constructed and Decompress(Compress(s)) returns s
\* without error, for strings in and out of the sample.
C1_RoundTrip ==
    /\ origin = "build" => pc # "rejected"
    /\ (origin = "build" /\ pc = "done") =>
          /\ result.err = "none"
          /\ ~result.nil
          /\ result.output = input

\* a string that is not a sample record, holds the bytes 0x00 and 0xFF and
\* a learned symbol, and has been compressed and decompressed
C1_Witness ==
    /\ origin = "build"
    /\ pc = "done"
    /\ \A k \in 1..Len(text.recs) : text.recs[k] # input
    /\ \E k \in 1..Len(input) : input[k] = 0
    /\ \E k \in 1..Len(input) : input[k] = 255
    /\ Len(compressed) < 2 * Len(input)
    /\ result.output = input

lengthsOf(st, i) == Cardinality({c \in learned(st) : Len(st.Symbols[c + 1]) = i})

\* C4: Build makes its five passes and the table after each holds at most
\* 255 learned symbols of length 1..8 (so no counter is indexed out of its
\* 512 slots); the blob holds the eight counts of the symbols of length
\* 8..1 and then the symbols, 8 bytes plus the symbol lengths in all, and
\* the parser accepts it; for an empty sample list it is eight zero bytes.
C4_BuildTotal ==
    origin = "build" =>
        /\ (pc \in {"count", "final"} /\ sampleFrac > 8) =>
              /\ table.Nsymbols <= 255
              /\ Len(table.Symbols) = 256 + table.Nsymbols
              /\ \A c \in learned(table) : Len(table.Symbols[c + 1]) \in 1..8
        /\ pc = "make" =>
              /\ \A c \in DOMAIN count1 : c \in 0..(CountSlots - 1)
              /\ \A pr \in DOMAIN count2 :
                    pr[1] \in 0..(CountSlots - 1) /\ pr[2] \in 0..(CountSlots - 1)
        /\ pc = "final" => sampleFrac = 158
        /\ pc \in {"dict", "comp"} =>
              /\ Len(dict) >= 8
              /\ \A i \in 1..8 : dict[i] = lengthsOf(table, 9 - i)
              /\ Len(dict) = 8 + 8 * lengthsOf(table, 8) + 7 * lengthsOf(table, 7)
                               + 6 * lengthsOf(table, 6) + 5 * lengthsOf(table, 5)
                               + 4 * lengthsOf(table, 4) + 3 * lengthsOf(table, 3)
                               + 2 * lengthsOf(table, 2) + lengthsOf(table, 1)
              /\ textLen(text) = 0 => dict = <<0, 0, 0, 0, 0, 0, 0, 0>>
        /\ pc = "comp" => (~comp.nil /\ comp.err = "none")

\* a pass that ends with the table full
C4_Witness ==
    /\ origin = "build"
    /\ pc = "count"
    /\ sampleFrac > 8
    /\ table.Nsymbols = 255

noDuplicates(st) ==
    \A c \in learned(st) : \A d \in learned(st) :
        c # d => st.Symbols[c + 1] # st.Symbols[d + 1]

\* C8: the table makeTable produces at the end of each pass, and the table
\* parsed from the blob Build returns, hold no two identical learned symbols.
C8_NoDuplicates ==
    origin = "build" =>
        /\ pc \in {"count", "final", "dict"} => noDuplicates(table)
        /\ (pc = "comp" /\ ~comp.nil) => noDuplicates(comp.table)

\* a table of a later pass that holds a learned symbol, a learned symbol
\* that extends it, and a symbol of three bytes or more
C8_Witness ==
    /\ origin = "build"
    /\ pc = "count"
    /\ sampleFrac >= 68
    /\ \E c \in learned(table) : Len(table.Symbols[c + 1]) >= 3
    /\ \E c \in learned(table) : \E d \in learned(table) :
          /\ Len(table.Symbols[c + 1]) < Len(table.Symbols[d + 1])
          /\ isPrefix(table.Symbols[c + 1], table.Symbols[d + 1])

\* C10: at the end of compressCount, count1[c] is the number of times the
\* tokenisation of the sampled records produced code c and count2[c1][c2]
\* the number of times c1 was directly followed by c2, also beyond 32767;
\* every code that occurred yields a candidate with gain len * count, times
\* 8 for a one-byte symbol.
C10_ExactCounts ==
    (origin = "build" /\ pc = "make") =>
        LET n  == tally(table, sampleFrac, text)
            pq == candidates(table, count1, count2, <<>>, counted(count1, count2))
        IN  /\ \A c \in DOMAIN n.c1 : at1(count1, c) = n.c1[c]
            /\ \A pr \in DOMAIN n.c2 : at2(count2, pr[1], pr[2]) = n.c2[pr]
            /\ \A c \in DOMAIN n.c1 :
                  n.c1[c] > 0 =>
                     \E k \in 1..Len(pq) :
                        /\ pq[k].value = table.Symbols[c + 1]
                        /\ pq[k].priority =
                              Len(pq[k].value) * n.c1[c]
                                 * (IF Len(pq[k].value) = 1 THEN 8 ELSE 1)

====
